---- MODULE Spec2Model ----
(***************************************************************************)
(* EnhancedAxios (src/src/api/EnhancedAxios.ts) and TokenStorage           *)
(* (src/src/storage/TokenStorage.ts) as a state machine.                   *)
(*                                                                         *)
(* The transport (axios), the clock (Date.now), the random generator, the   *)
(* timers and the storage primitives are the environment: the transport    *)
(* answers every attempt with a status and a body of its choice, the       *)
(* clock is non-decreasing, a fallible storage primitive may throw.        *)
(*                                                                         *)
(* The instance fields below are those of the client instance in focus; a  *)
(* second instance, where a specification has one, is kept in other, and   *)
(* the storage primitives and the clock are the process's.                 *)
(***************************************************************************)
EXTENDS Integers, Sequences, FiniteSets, TLC

VARIABLES
    config,             \* this.config (cache, retryCount), fixed by the constructor
    tokenStorageType,   \* this.tokenStorageType
    cache,              \* this.cache : Map<string, any>, a function on its keys
    requestQueue,       \* this.requestQueue, a sequence of call ids
    isProcessingQueue,  \* this.isProcessingQueue
    calls,              \* one record per call of get/post/put/delete/upload, in enqueue order
    storage,            \* the storage primitives: backend type -> stored string or Null
    now,                \* the last value read from Date.now()
    tokenOps,           \* number of token operations invoked on this client so far
    started,            \* history: ids in the order their action started
    settled,            \* history: ids in the order their future settled
    fetched,            \* history: cache key -> the first GET answered 2xx: id, body, attempts
    stamps,             \* history: cache key -> the _t last sent by a finished call
    invalidated,        \* history: backends emptied by a 401 and not written since
    since401,           \* history: "handled" once a 401 answer was handled, "reported" once
                        \* its call was rejected, "none" again once a token is saved
    other,              \* the instance fields of the client instance that is not in focus
    log                 \* history: the last calls of TokenStorage.setToken/getToken/removeToken
                        \* made by the application itself, oldest first

vars == <<config, tokenStorageType, cache, requestQueue, isProcessingQueue, calls,
          storage, now, tokenOps, started, settled, fetched, stamps, invalidated,
          since401, other, log>>

-----------------------------------------------------------------------------
(* Bounds of the model *)

MaxCalls == 3          \* Spec: calls of get/post/put/delete/upload per behaviour
MaxBustCalls == 2      \* SpecBust: calls per behaviour
MaxElapsed == 1        \* SpecBust: milliseconds that may pass between two clock readings
MaxRetryOption == 4    \* SpecRetry: largest retryCount option given to the constructor
MaxRetryCalls == 1     \* SpecRetry: calls per behaviour
MaxTokenCalls == 2     \* SpecToken: calls per behaviour
MaxTokenOps == 2       \* SpecToken: saveToken/removeToken/setTokenStorageType calls
MaxLog == 2            \* SpecStore: calls of TokenStorage methods kept in the log
MaxKeyCalls == 2       \* SpecKey: calls per behaviour
MaxLiveCalls == 2      \* SpecLive: calls per behaviour
MaxSharedCalls == 2    \* SpecShared: calls per behaviour, of both client instances
MaxSharedTokenOps == 1 \* SpecShared: saveToken calls per behaviour

-----------------------------------------------------------------------------
(* JavaScript values *)

Undefined == "undefined"    \* undefined, also an option key that is not given
Null == "null"              \* null
None == "none"              \* no value yet (model bookkeeping)

Min(a, b) == IF a < b THEN a ELSE b

RECURSIVE Pow2(_)
Pow2(n) == IF n = 0 THEN 1 ELSE 2 * Pow2(n - 1)

\* JS truthiness of a string-valued slot (a token, the cache option)
Truthy(v) == v \notin {Undefined, Null, "false", ""}

NotGiven == -1              \* a numeric slot that holds no number (undefined)

-----------------------------------------------------------------------------
(* TokenStorage.ts *)

LOCAL_STORAGE == "localStorage"
SESSION_STORAGE == "sessionStorage"
COOKIES == "cookies"
VUEX == "vuex"
IN_MEMORY == "inMemory"
INDEXED_DB == "indexedDB"
NEXT_SERVER_SIDE == "nextServerSide"
NEXT_HTTP_ONLY == "nextHttpOnly"

StorageType == {LOCAL_STORAGE, SESSION_STORAGE, COOKIES, VUEX, IN_MEMORY,
                INDEXED_DB, NEXT_SERVER_SIDE, NEXT_HTTP_ONLY}

\* the backends that have a storage primitive behind them
Backends == {LOCAL_STORAGE, SESSION_STORAGE, COOKIES, IN_MEMORY, INDEXED_DB}

\* primitives of the runtime that may throw or reject (InMemoryStorage is a Map)
Fallible == {LOCAL_STORAGE, SESSION_STORAGE, COOKIES, INDEXED_DB}

Tokens == {"", "abc"}

\* whether the primitive behind a backend fails on one use: only a fallible one can
Outcomes(type) == IF type \in Fallible THEN BOOLEAN ELSE {FALSE}

\* bug: a failure of set is logged and not rethrown
setToken_swallowing(token, type, store, fails) ==
    IF type \in Backends /\ ~(type \in Fallible /\ fails)
    THEN [store |-> [store EXCEPT ![type] = token], threw |-> FALSE]
    ELSE [store |-> store, threw |-> FALSE]

\* setToken: the new storage and whether the call throws to its caller
setToken(token, type, store, fails) ==
    IF type = VUEX THEN [store |-> store, threw |-> TRUE]
    ELSE IF type \in {NEXT_SERVER_SIDE, NEXT_HTTP_ONLY} THEN [store |-> store, threw |-> FALSE]
    ELSE IF type \in Fallible /\ fails THEN [store |-> store, threw |-> TRUE]
    ELSE [store |-> [store EXCEPT ![type] = token], threw |-> FALSE]

\* getToken: the value handed to the caller; never throws
getToken(type, store, fails) ==
    IF type = VUEX THEN Null
    ELSE IF type \in {NEXT_SERVER_SIDE, NEXT_HTTP_ONLY} THEN Null
    ELSE IF type \in Fallible /\ fails THEN Null
    ELSE IF type = COOKIES THEN (IF Truthy(store[type]) THEN store[type] ELSE Null)
    ELSE IF type = IN_MEMORY THEN (IF store[type] = Null THEN Undefined ELSE store[type])
    ELSE store[type]

\* removeToken: the new storage and whether the call throws to its caller
removeToken(type, store, fails) ==
    IF type = VUEX THEN [store |-> store, threw |-> TRUE]
    ELSE IF type \in {NEXT_SERVER_SIDE, NEXT_HTTP_ONLY} THEN [store |-> store, threw |-> FALSE]
    ELSE IF type \in Fallible /\ fails THEN [store |-> store, threw |-> TRUE]
    ELSE [store |-> [store EXCEPT ![type] = Null], threw |-> FALSE]

\* the switch of a TokenStorage method throws: the VUEX case always, a primitive when
\* it fails
Throws(type, fails) == type = VUEX \/ (type \in Fallible /\ fails)

\* getAuthToken: TokenStorage.getToken({ type: this.tokenStorageType })
getAuthToken(type, store, fails) == getToken(type, store, fails)

\* bug: TokenStorage.removeToken() without options removes from the default backend
handleUnauthorized_defaultType(type, store, fails) == removeToken(LOCAL_STORAGE, store, fails)

\* handleUnauthorized: TokenStorage.removeToken({ type: this.tokenStorageType })
handleUnauthorized(type, store, fails) == removeToken(type, store, fails)

\* what a backend holds under the default key
Held(store, type) == IF type \in Backends THEN store[type] ELSE Null

-----------------------------------------------------------------------------
(* Requests and the transport *)

Urls == {"/a", "/b"}

\* config?.params: undefined, or an object as its members in insertion order
NoParams == [given |-> FALSE, members |-> <<>>]
Object(members) == [given |-> TRUE, members |-> members]
Params == {NoParams, Object(<< <<"p", "1">> >>)}

GetRequests == {r \in [verb : {"get"}, url : Urls, params : Params] :
                    r.url = "/a" \/ ~r.params.given}
\* GETs whose params objects have two members, given in either order
KeyParams == {NoParams, Object(<< <<"p", "1">> >>),
              Object(<< <<"p", "1">>, <<"q", "2">> >>),
              Object(<< <<"q", "2">>, <<"p", "1">> >>)}
KeyRequests == [verb : {"get"}, url : Urls, params : KeyParams]

WriteRequests == {[verb |-> v, url |-> "/a", params |-> NoParams] :
                    v \in {"post", "put", "delete", "upload"}}
Requests == GetRequests \cup WriteRequests

\* upload delegates to post (line 133)
Method(verb) == IF verb = "upload" THEN "post" ELSE verb

NoResponse == 0                 \* error.response is undefined
Failures == {NoResponse, 401, 404, 500, 503}
Bodies == {"b1", "b2"}

\* what a caller's future settles with
Body(b) == [kind |-> "body", body |-> b, status |-> 200, attempt |-> 0]
TransportError(status, attempt) ==
    [kind |-> "transport", body |-> None, status |-> status, attempt |-> attempt]
StorageError == [kind |-> "storage", body |-> None, status |-> 0, attempt |-> 0]
NoResult == [kind |-> None, body |-> None, status |-> 0, attempt |-> 0]

-----------------------------------------------------------------------------
(* constructor *)

DefaultRetryCount == 3

CacheOptions == {"true", "false", Undefined}
RetryOptions == {NotGiven, 0, 1, MaxRetryOption}

\* the constructor options each specification draws from
QueueOptions ==
    [cache : {"true", Undefined}, retryCount : {1}, tokenStorageType : {LOCAL_STORAGE}]
BustOptions == [cache : {"false"}, retryCount : {1}, tokenStorageType : {LOCAL_STORAGE}]
RetryPolicyOptions ==
    [cache : {"true", Undefined}, retryCount : RetryOptions,
     tokenStorageType : {LOCAL_STORAGE}]
TokenOptions == [cache : {"true"}, retryCount : {1}, tokenStorageType : {LOCAL_STORAGE}]

\* { retryCount: 3, ..., ...config }
Construct(options) ==
    [cache |-> options.cache,
     retryCount |-> IF options.retryCount = NotGiven THEN DefaultRetryCount
                    ELSE options.retryCount,
     tokenStorageType |-> options.tokenStorageType]

-----------------------------------------------------------------------------
(* Caching *)

RECURSIVE JsonMembers(_)
JsonMembers(ps) ==
    IF Len(ps) = 0 THEN ""
    ELSE "\"" \o Head(ps)[1] \o "\":" \o Head(ps)[2]
         \o (IF Len(ps) = 1 THEN "" ELSE "," \o JsonMembers(Tail(ps)))

\* JSON.stringify(config?.params) inside a template literal
JSONStringify(params) ==
    IF ~params.given THEN "undefined" ELSE "{" \o JsonMembers(params.members) \o "}"

CacheKey(url, params) == url \o "-" \o JSONStringify(params)

KeyOf(req) == CacheKey(req.url, req.params)
Keys == {KeyOf(r) : r \in GetRequests \cup KeyRequests}

\* bug: the lookup is skipped
CacheHas_skipped(cfg, ch, key) == FALSE

\* this.config.cache && this.cache.has(cacheKey)
CacheHas(cfg, ch, key) == Truthy(cfg.cache) /\ key \in DOMAIN ch

\* bug: the response is returned without being stored
CacheSet_dropped(cfg, ch, key, body) == ch

\* if (this.config.cache) this.cache.set(cacheKey, response.data)
CacheSet(cfg, ch, key, body) == IF Truthy(cfg.cache) THEN (key :> body) @@ ch ELSE ch

-----------------------------------------------------------------------------
(* Retry logic *)

\* x || 3 on a number: 0 is falsy
OrThree(x) == IF x = 0 THEN 3 ELSE x

\* retryCount < (this.config.retryCount || 3) && status in {500, 503}
shouldRetry(cfg, retryCount, status) ==
    /\ retryCount < OrThree(cfg.retryCount)
    /\ status \in {500, 503}

\* bug: the exponent is the number of retries already made
computeDelay_early(retryCount) == Min(1000 * Pow2(retryCount - 1), 10000)

\* Math.min(1000 * Math.pow(2, retryCount), 10000), retryCount already incremented
computeDelay(retryCount) == Min(1000 * Pow2(retryCount), 10000)

-----------------------------------------------------------------------------
(* Calls *)

\* the headers the request interceptor computes: Authorization and X-Request-ID
Headers(bearer, requestId) == [bearer |-> bearer, requestId |-> requestId]
NoHeaders == Headers(None, None)

\* generateRequestId(): two random strings
RequestIds == {"r1", "r2"}

\* bug: the counter is a field of the client, so a new call starts with the retries
\* another call has used
NewCall_inherited(req) ==
    [req |-> req, pc |-> "queued",
     retryCount |-> IF \E k \in DOMAIN calls : calls[k].pc = "backoff" THEN 1 ELSE 0,
                             \* __retryCount on the request descriptor
     attempts |-> 0,         \* transport attempts issued for this call
     status |-> NotGiven,    \* status of the last response: 200 or a failure
     body |-> None,          \* body of the last 2xx response
     result |-> NoResult,    \* what the caller's future settles with
     t |-> NotGiven,         \* params._t of the last attempt
     bearer |-> None,        \* Authorization of the last attempt, without "Bearer "
     requestId |-> None,     \* X-Request-ID of the last attempt
     original |-> NoHeaders, \* the two headers as the first attempt carried them
     lostToken |-> FALSE,    \* the token read of the attempt in flight failed on a
                             \* backend that held a value
     delay |-> 0]            \* the last backoff delay

\* pc: queued -> request -> inflight -> (backoff -> request -> inflight)* -> settle
\*     -> finish -> done; a cache hit goes from queued to settle
NewCall(req) ==
    [req |-> req, pc |-> "queued",
     retryCount |-> 0,       \* __retryCount on the request descriptor
     attempts |-> 0,         \* transport attempts issued for this call
     status |-> NotGiven,    \* status of the last response: 200 or a failure
     body |-> None,          \* body of the last 2xx response
     result |-> NoResult,    \* what the caller's future settles with
     t |-> NotGiven,         \* params._t of the last attempt
     bearer |-> None,        \* Authorization of the last attempt, without "Bearer "
     requestId |-> None,     \* X-Request-ID of the last attempt
     original |-> NoHeaders, \* the two headers as the first attempt carried them
     lostToken |-> FALSE,    \* the token read of the attempt in flight failed on a
                             \* backend that held a value
     delay |-> 0]            \* the last backoff delay

NotFetched == [id |-> 0, body |-> None, attempts |-> 0]

\* a settled and finished call: its closure and descriptor are garbage
DoneCall == [pc |-> "done"]

Ids == 1..Len(calls)
Active(c) == c.pc \in {"request", "inflight", "backoff", "settle", "finish"}

\* the request closure up to its first suspension: getWithCache's lookup
startRequest(cfg, ch, c) ==
    IF c.req.verb = "get" /\ CacheHas(cfg, ch, KeyOf(c.req))
    THEN [c EXCEPT !.pc = "settle", !.result = Body(ch[KeyOf(c.req)])]
    ELSE [c EXCEPT !.pc = "request"]

\* on q = [requestQueue, isProcessingQueue, calls, started]: set the flag, take the
\* closure at position i off the queue and call it
takeAndRun(cfg, ch, q, i) ==
    LET id == q.requestQueue[i] IN
    [requestQueue |-> [j \in 1..(Len(q.requestQueue) - 1) |->
                          IF j < i THEN q.requestQueue[j] ELSE q.requestQueue[j + 1]],
     isProcessingQueue |-> TRUE,
     calls |-> [q.calls EXCEPT ![id] = startRequest(cfg, ch, @)],
     started |-> Append(q.started, id)]

\* bug: the busy flag is not consulted
processQueue_unguarded(cfg, ch, q) ==
    IF Len(q.requestQueue) = 0 THEN q ELSE takeAndRun(cfg, ch, q, 1)

\* bug: pop() instead of shift()
processQueue_pop(cfg, ch, q) ==
    IF q.isProcessingQueue \/ Len(q.requestQueue) = 0 THEN q
    ELSE takeAndRun(cfg, ch, q, Len(q.requestQueue))

\* processQueue up to its await: the guard, the flag, shift() and the call
processQueue(cfg, ch, q) ==
    IF q.isProcessingQueue \/ Len(q.requestQueue) = 0 THEN q
    ELSE takeAndRun(cfg, ch, q, 1)

-----------------------------------------------------------------------------
(* Initial state: a client right after construction, every backend empty *)

\* no second client instance
NoInstance == [name |-> None]

\* the instance fields of a client right after construction, with its history
NewInstance(name, options) ==
    [name |-> name,
     config |-> Construct(options),
     tokenStorageType |-> Construct(options).tokenStorageType,
     cache |-> <<>>,
     requestQueue |-> <<>>,
     isProcessingQueue |-> FALSE,
     calls |-> <<>>,
     tokenOps |-> 0,
     started |-> <<>>,
     settled |-> <<>>,
     fetched |-> [k \in Keys |-> NotFetched],
     stamps |-> [k \in Keys |-> NotGiven]]

\* the instance fields of the client in focus
ThisInstance(name) ==
    [name |-> name,
     config |-> config,
     tokenStorageType |-> tokenStorageType,
     cache |-> cache,
     requestQueue |-> requestQueue,
     isProcessingQueue |-> isProcessingQueue,
     calls |-> calls,
     tokenOps |-> tokenOps,
     started |-> started,
     settled |-> settled,
     fetched |-> fetched,
     stamps |-> stamps]

InitWith(OptionSet) ==
    /\ other = NoInstance
    /\ log = <<>>
    /\ \E options \in OptionSet :
          /\ config = Construct(options)
          /\ tokenStorageType = Construct(options).tokenStorageType
    /\ cache = <<>>
    /\ requestQueue = <<>>
    /\ isProcessingQueue = FALSE
    /\ calls = <<>>
    /\ storage = [b \in Backends |-> Null]
    /\ now = 0
    /\ tokenOps = 0
    /\ started = <<>>
    /\ settled = <<>>
    /\ fetched = [k \in Keys |-> NotFetched]
    /\ stamps = [k \in Keys |-> NotGiven]
    /\ invalidated = {}
    /\ since401 = "none"

-----------------------------------------------------------------------------
(* Actions *)

\* get/post/put/delete/upload: enqueueRequest pushes the closure and calls processQueue
Enqueue(req) ==
    /\ LET id == Len(calls) + 1
           q == processQueue(config, cache,
                    [requestQueue |-> Append(requestQueue, id),
                     isProcessingQueue |-> isProcessingQueue,
                     calls |-> Append(calls, NewCall(req)),
                     started |-> started])
       IN /\ requestQueue' = q.requestQueue
          /\ isProcessingQueue' = q.isProcessingQueue
          /\ calls' = q.calls
          /\ started' = q.started
    /\ UNCHANGED <<other, log, config, tokenStorageType, cache, storage, now, tokenOps, settled,
                   fetched, stamps, invalidated, since401>>

\* Date.now() is read only for the cache-busting parameter
ReadsClock(cfg) == cfg.cache = "false"

\* bug: the Authorization header is computed for the first attempt only
RequestInterceptor_firstOnly(id, elapsed, fails, rid) ==
    /\ calls[id].pc = "request"
    /\ elapsed = 0 \/ ReadsClock(config)
    /\ LET token == getAuthToken(tokenStorageType, storage, fails)
           bearer == IF calls[id].attempts > 0 THEN calls[id].bearer
                     ELSE IF Truthy(token) THEN token ELSE None
       IN calls' = [calls EXCEPT ![id] =
                    [@ EXCEPT !.pc = "inflight",
                              !.attempts = @ + 1,
                              !.t = IF ReadsClock(config) THEN now + elapsed ELSE NotGiven,
                              !.bearer = bearer,
                              !.requestId = rid,
                              !.lostToken = Throws(tokenStorageType, fails)
                                            /\ Held(storage, tokenStorageType) # Null,
                              !.original = IF calls[id].attempts = 0
                                           THEN Headers(bearer, rid) ELSE @]]
    /\ now' = now + elapsed
    /\ UNCHANGED <<other, log, config, tokenStorageType, cache, requestQueue, isProcessingQueue,
                   storage, tokenOps, started, settled, fetched, stamps, invalidated,
                   since401>>

\* the request interceptor, then the transport sends the attempt
RequestInterceptor(id, elapsed, fails, rid) ==
    /\ calls[id].pc = "request"
    /\ elapsed = 0 \/ ReadsClock(config)
    /\ LET token == getAuthToken(tokenStorageType, storage, fails)
           bearer == IF Truthy(token) THEN token ELSE None
       IN calls' = [calls EXCEPT ![id] =
                    [@ EXCEPT !.pc = "inflight",
                              !.attempts = @ + 1,
                              !.t = IF ReadsClock(config) THEN now + elapsed ELSE NotGiven,
                              !.bearer = bearer,
                              !.requestId = rid,
                              !.lostToken = Throws(tokenStorageType, fails)
                                            /\ Held(storage, tokenStorageType) # Null,
                              !.original = IF calls[id].attempts = 0
                                           THEN Headers(bearer, rid) ELSE @]]
    /\ now' = now + elapsed
    /\ UNCHANGED <<other, log, config, tokenStorageType, cache, requestQueue, isProcessingQueue,
                   storage, tokenOps, started, settled, fetched, stamps, invalidated,
                   since401>>

\* bug: a write that succeeds discards the cache
RespondSuccess_invalidating(id, body) ==
    /\ calls[id].pc = "inflight"
    /\ LET c == calls[id]
           key == KeyOf(c.req)
       IN /\ calls' = [calls EXCEPT ![id] =
                        [@ EXCEPT !.pc = "settle", !.status = 200, !.body = body,
                                  !.result = Body(body), !.lostToken = FALSE]]
          /\ cache' = IF c.req.verb = "get" THEN CacheSet(config, cache, key, body)
                      ELSE <<>>
          /\ fetched' = IF c.req.verb = "get" /\ fetched[key] = NotFetched
                        THEN [fetched EXCEPT ![key] =
                                 [id |-> id, body |-> body, attempts |-> c.attempts]]
                        ELSE fetched
    /\ UNCHANGED <<other, log, config, tokenStorageType, requestQueue, isProcessingQueue, storage,
                   now, tokenOps, started, settled, stamps, invalidated, since401>>

\* the transport answers 2xx: response interceptor, then getWithCache or .then(res => res.data)
RespondSuccess(id, body) ==
    /\ calls[id].pc = "inflight"
    /\ LET c == calls[id]
           key == KeyOf(c.req)
       IN /\ calls' = [calls EXCEPT ![id] =
                        [@ EXCEPT !.pc = "settle", !.status = 200, !.body = body,
                                  !.result = Body(body), !.lostToken = FALSE]]
          /\ cache' = IF c.req.verb = "get" THEN CacheSet(config, cache, key, body)
                      ELSE cache
          /\ fetched' = IF c.req.verb = "get" /\ fetched[key] = NotFetched
                        THEN [fetched EXCEPT ![key] =
                                 [id |-> id, body |-> body, attempts |-> c.attempts]]
                        ELSE fetched
    /\ UNCHANGED <<other, log, config, tokenStorageType, requestQueue, isProcessingQueue, storage,
                   now, tokenOps, started, settled, stamps, invalidated, since401>>

\* the transport fails the attempt: the response error interceptor
RespondFailure(id, status, fails) ==
    /\ calls[id].pc = "inflight"
    /\ LET c == calls[id]
           rm == IF status = 401 THEN handleUnauthorized(tokenStorageType, storage, fails)
                 ELSE [store |-> storage, threw |-> FALSE]
           retryCount == c.retryCount + 1
       IN /\ storage' = rm.store
          /\ invalidated' = IF status = 401 /\ ~rm.threw
                            THEN invalidated \cup {tokenStorageType} ELSE invalidated
          /\ since401' = IF status = 401 THEN "handled" ELSE since401
          /\ calls' = [calls EXCEPT ![id] =
                IF rm.threw
                THEN [@ EXCEPT !.pc = "settle", !.status = status, !.result = StorageError,
                               !.lostToken = FALSE]
                ELSE IF shouldRetry(config, c.retryCount, status)
                THEN [@ EXCEPT !.pc = "backoff", !.status = status,
                               !.retryCount = retryCount,
                               !.delay = computeDelay(retryCount), !.lostToken = FALSE]
                ELSE [@ EXCEPT !.pc = "settle", !.status = status,
                               !.result = TransportError(status, c.attempts),
                               !.lostToken = FALSE]]
    /\ UNCHANGED <<other, log, config, tokenStorageType, cache, requestQueue, isProcessingQueue,
                   now, tokenOps, started, settled, fetched, stamps>>

\* bug: the retry is issued with a fresh descriptor, its counter unset
BackoffElapsed_fresh(id) ==
    /\ calls[id].pc = "backoff"
    /\ calls' = [calls EXCEPT ![id] = [@ EXCEPT !.pc = "request", !.retryCount = 0]]
    /\ now' = IF ReadsClock(config) THEN now + calls[id].delay ELSE now
    /\ UNCHANGED <<other, log, config, tokenStorageType, cache, requestQueue, isProcessingQueue,
                   storage, tokenOps, started, settled, fetched, stamps, invalidated,
                   since401>>

\* the backoff timer fires: this.instance(originalRequest)
BackoffElapsed(id) ==
    /\ calls[id].pc = "backoff"
    /\ calls' = [calls EXCEPT ![id].pc = "request"]
    /\ now' = IF ReadsClock(config) THEN now + calls[id].delay ELSE now
    /\ UNCHANGED <<other, log, config, tokenStorageType, cache, requestQueue, isProcessingQueue,
                   storage, tokenOps, started, settled, fetched, stamps, invalidated,
                   since401>>

\* the queued closure calls resolve or reject: the caller's future settles
Settle(id) ==
    /\ calls[id].pc = "settle"
    /\ calls' = [calls EXCEPT ![id].pc = "finish"]
    /\ settled' = Append(settled, id)
    /\ since401' = IF calls[id].status = 401 /\ since401 = "handled" THEN "reported"
                   ELSE since401
    /\ UNCHANGED <<other, log, config, tokenStorageType, cache, requestQueue, isProcessingQueue,
                   storage, now, tokenOps, started, fetched, stamps, invalidated>>

\* bug: the rejection of the closure escapes the await: the flag stays set and the
\* queue is not looked at again
Finish_leaky(id) ==
    /\ calls[id].pc = "finish"
    /\ LET c == calls[id]
           rest == [requestQueue |-> requestQueue,
                    isProcessingQueue |-> c.result.kind # "body",
                    calls |-> [calls EXCEPT ![id] = DoneCall],
                    started |-> started]
           q == IF c.result.kind = "body" THEN processQueue(config, cache, rest) ELSE rest
       IN /\ requestQueue' = q.requestQueue
          /\ isProcessingQueue' = q.isProcessingQueue
          /\ calls' = q.calls
          /\ started' = q.started
          /\ stamps' = IF c.req.verb = "get" /\ c.t # NotGiven
                       THEN [stamps EXCEPT ![KeyOf(c.req)] = c.t] ELSE stamps
    /\ UNCHANGED <<other, log, config, tokenStorageType, cache, storage, now, tokenOps, settled,
                   fetched, invalidated, since401>>

\* processQueue resumes after its await: clears the flag and calls itself
Finish(id) ==
    /\ calls[id].pc = "finish"
    /\ LET c == calls[id]
           q == processQueue(config, cache,
                    [requestQueue |-> requestQueue,
                     isProcessingQueue |-> FALSE,
                     calls |-> [calls EXCEPT ![id] = DoneCall],
                     started |-> started])
       IN /\ requestQueue' = q.requestQueue
          /\ isProcessingQueue' = q.isProcessingQueue
          /\ calls' = q.calls
          /\ started' = q.started
          /\ stamps' = IF c.req.verb = "get" /\ c.t # NotGiven
                       THEN [stamps EXCEPT ![KeyOf(c.req)] = c.t] ELSE stamps
    /\ UNCHANGED <<other, log, config, tokenStorageType, cache, storage, now, tokenOps, settled,
                   fetched, invalidated, since401>>

\* saveToken(token, storageType?): TokenStorage.setToken on storageType || this.tokenStorageType
SaveToken(token, storageType, fails) ==
    /\ LET type == IF Truthy(storageType) THEN storageType ELSE tokenStorageType
           r == setToken(token, type, storage, fails)
       IN /\ storage' = r.store
          /\ invalidated' = IF r.threw THEN invalidated ELSE invalidated \ {type}
          /\ since401' = IF r.threw THEN since401 ELSE "none"
    /\ tokenOps' = tokenOps + 1
    /\ UNCHANGED <<other, log, config, tokenStorageType, cache, requestQueue, isProcessingQueue,
                   calls, now, started, settled, fetched, stamps>>

\* removeToken(): TokenStorage.removeToken on this.tokenStorageType
RemoveToken(fails) ==
    /\ storage' = removeToken(tokenStorageType, storage, fails).store
    /\ tokenOps' = tokenOps + 1
    /\ UNCHANGED <<other, log, config, tokenStorageType, cache, requestQueue, isProcessingQueue,
                   calls, now, started, settled, fetched, stamps, invalidated,
                   since401>>

\* bug: the switch moves the token of the active backend to the new one
SetTokenStorageType_migrating(type) ==
    /\ tokenStorageType' = type
    /\ storage' = IF type \in Backends /\ tokenStorageType \in Backends
                     /\ type # tokenStorageType
                  THEN [storage EXCEPT ![type] = storage[tokenStorageType],
                                       ![tokenStorageType] = Null]
                  ELSE storage
    /\ tokenOps' = tokenOps + 1
    /\ UNCHANGED <<other, log, config, cache, requestQueue, isProcessingQueue, calls, now,
                   started, settled, fetched, stamps, invalidated, since401>>

\* setTokenStorageType(type)
SetTokenStorageType(type) ==
    /\ tokenStorageType' = type
    /\ tokenOps' = tokenOps + 1
    /\ UNCHANGED <<other, log, config, cache, requestQueue, isProcessingQueue, calls, storage, now,
                   started, settled, fetched, stamps, invalidated, since401>>

\* one call of a TokenStorage method as its caller saw it: the backend and the token
\* given, what the backend held before, what get returned, whether the method threw to
\* its caller and whether its switch failed inside
Op(op, type, token, before, result, threw, failed) ==
    [op |-> op, type |-> type, token |-> token, before |-> before, result |-> result,
     threw |-> threw, failed |-> failed]

\* the log keeps the last MaxLog calls
Logged(l, op) == IF Len(l) < MaxLog THEN Append(l, op) ELSE Append(Tail(l), op)

\* the application calls TokenStorage.setToken(token, { type })
SetTokenCall(token, type, fails) ==
    /\ LET r == setToken(token, type, storage, fails) IN
          /\ storage' = r.store
          /\ log' = Logged(log, Op("set", type, token, Held(storage, type), None, r.threw,
                                   Throws(type, fails)))
    /\ UNCHANGED <<other, config, tokenStorageType, cache, requestQueue, isProcessingQueue,
                   calls, now, tokenOps, started, settled, fetched, stamps, invalidated,
                   since401>>

\* the application calls TokenStorage.getToken({ type })
GetTokenCall(type, fails) ==
    /\ log' = Logged(log, Op("get", type, None, Held(storage, type),
                             getToken(type, storage, fails), FALSE, Throws(type, fails)))
    /\ UNCHANGED <<other, config, tokenStorageType, cache, requestQueue, isProcessingQueue,
                   calls, storage, now, tokenOps, started, settled, fetched, stamps,
                   invalidated, since401>>

\* the application calls TokenStorage.removeToken({ type })
RemoveTokenCall(type, fails) ==
    /\ LET r == removeToken(type, storage, fails) IN
          /\ storage' = r.store
          /\ log' = Logged(log, Op("remove", type, None, Held(storage, type), None, r.threw,
                                   Throws(type, fails)))
    /\ UNCHANGED <<other, config, tokenStorageType, cache, requestQueue, isProcessingQueue,
                   calls, now, tokenOps, started, settled, fetched, stamps, invalidated,
                   since401>>

Peer(name) == IF name = "X" THEN "Y" ELSE "X"

\* bug: the cache is a static field, one Map for all instances
Focus_sharedCache ==
    /\ other # NoInstance
    /\ config' = other.config
    /\ tokenStorageType' = other.tokenStorageType
    /\ cache' = cache
    /\ requestQueue' = other.requestQueue
    /\ isProcessingQueue' = other.isProcessingQueue
    /\ calls' = other.calls
    /\ tokenOps' = other.tokenOps
    /\ started' = other.started
    /\ settled' = other.settled
    /\ fetched' = other.fetched
    /\ stamps' = other.stamps
    /\ other' = ThisInstance(Peer(other.name))
    /\ UNCHANGED <<storage, now, invalidated, since401, log>>

\* the next step is one of the other client instance: its fields come into focus, the
\* fields of this one are put aside; the storage primitives and the clock are shared
Focus ==
    /\ other # NoInstance
    /\ config' = other.config
    /\ tokenStorageType' = other.tokenStorageType
    /\ cache' = other.cache
    /\ requestQueue' = other.requestQueue
    /\ isProcessingQueue' = other.isProcessingQueue
    /\ calls' = other.calls
    /\ tokenOps' = other.tokenOps
    /\ started' = other.started
    /\ settled' = other.settled
    /\ fetched' = other.fetched
    /\ stamps' = other.stamps
    /\ other' = ThisInstance(Peer(other.name))
    /\ UNCHANGED <<storage, now, invalidated, since401, log>>

\* every step of a call after it was enqueued, the random generator yielding one of rids
LifecycleOf(rids) ==
    \/ \E id \in Ids, elapsed \in 0..MaxElapsed, fails \in Outcomes(tokenStorageType),
          rid \in rids :
          RequestInterceptor(id, elapsed, fails, rid)
    \/ \E id \in Ids, body \in Bodies : RespondSuccess(id, body)
    \/ \E id \in Ids, status \in Failures, fails \in Outcomes(tokenStorageType) :
          RespondFailure(id, status, fails)
    \/ \E id \in Ids : BackoffElapsed(id)
    \/ \E id \in Ids : Settle(id)
    \/ \E id \in Ids : Finish(id)

\* the same with the request id fixed: it has no part in the queue, the cache, the
\* clock or the token
Lifecycle == LifecycleOf({"r1"})

\* the queue and the cache: every verb, every cache option, one retry
Init == InitWith(QueueOptions)
Next ==
    \/ \E req \in Requests : Len(calls) < MaxCalls /\ Enqueue(req)
    \/ Lifecycle
Spec == Init /\ [][Next]_vars

\* the retry policy: every retryCount option
InitRetry == InitWith(RetryPolicyOptions)
NextRetry ==
    \/ \E req \in Requests : Len(calls) < MaxRetryCalls /\ Enqueue(req)
    \/ LifecycleOf(RequestIds)
SpecRetry == InitRetry /\ [][NextRetry]_vars

\* cache disabled: the clock is read for the cache-busting parameter
InitBust == InitWith(BustOptions)
NextBust ==
    \/ \E req \in Requests : Len(calls) < MaxBustCalls /\ Enqueue(req)
    \/ Lifecycle
SpecBust == InitBust /\ [][NextBust]_vars

\* the token operations, every backend
TokenRequests == {r \in Requests : r.verb = "post"}
InitToken == InitWith(TokenOptions)
NextToken ==
    \/ \E req \in TokenRequests : Len(calls) < MaxTokenCalls /\ Enqueue(req)
    \/ Lifecycle
    \/ \E token \in Tokens, storageType \in StorageType \cup {Undefined} :
          \E fails \in Outcomes(IF Truthy(storageType) THEN storageType ELSE tokenStorageType) :
             tokenOps < MaxTokenOps /\ SaveToken(token, storageType, fails)
    \/ \E fails \in Outcomes(tokenStorageType) : tokenOps < MaxTokenOps /\ RemoveToken(fails)
    \/ \E type \in StorageType : tokenOps < MaxTokenOps /\ SetTokenStorageType(type)
SpecToken == InitToken /\ [][NextToken]_vars

\* TokenStorage used directly, on the backend of the client's configuration
StoreOptions == [cache : {"true"}, retryCount : {1}, tokenStorageType : StorageType]
InitStore == InitWith(StoreOptions)
NextStore ==
    \/ \E token \in Tokens, fails \in Outcomes(tokenStorageType) :
          SetTokenCall(token, tokenStorageType, fails)
    \/ \E fails \in Outcomes(tokenStorageType) : GetTokenCall(tokenStorageType, fails)
    \/ \E fails \in Outcomes(tokenStorageType) : RemoveTokenCall(tokenStorageType, fails)
SpecStore == InitStore /\ [][NextStore]_vars

\* two client instances X and Y in one process; X is in focus first
SharedOptions ==
    [cache : {"true"}, retryCount : {1}, tokenStorageType : {IN_MEMORY}]
SharedRequests == {r \in GetRequests : r.url = "/a" /\ ~r.params.given}
InitShared ==
    /\ \E options \in SharedOptions : other = NewInstance("Y", options)
    /\ log = <<>>
    /\ \E options \in SharedOptions :
          /\ config = Construct(options)
          /\ tokenStorageType = Construct(options).tokenStorageType
    /\ cache = <<>>
    /\ requestQueue = <<>>
    /\ isProcessingQueue = FALSE
    /\ calls = <<>>
    /\ storage = [b \in Backends |-> Null]
    /\ now = 0
    /\ tokenOps = 0
    /\ started = <<>>
    /\ settled = <<>>
    /\ fetched = [k \in Keys |-> NotFetched]
    /\ stamps = [k \in Keys |-> NotGiven]
    /\ invalidated = {}
    /\ since401 = "none"
NextShared ==
    \/ \E req \in SharedRequests :
          Len(calls) + Len(other.calls) < MaxSharedCalls /\ Enqueue(req)
    \/ Lifecycle
    \/ \E token \in Tokens, fails \in Outcomes(tokenStorageType) :
          tokenOps + other.tokenOps < MaxSharedTokenOps
             /\ SaveToken(token, Undefined, fails)
    \/ Focus
SpecShared == InitShared /\ [][NextShared]_vars

\* the cache key: GETs with params objects of one and two members
KeyOptions == [cache : {"true"}, retryCount : {1}, tokenStorageType : {LOCAL_STORAGE}]
InitKey == InitWith(KeyOptions)
NextKey ==
    \/ \E req \in KeyRequests : Len(calls) < MaxKeyCalls /\ Enqueue(req)
    \/ Lifecycle
SpecKey == InitKey /\ [][NextKey]_vars

\* the queue under fair scheduling: the event loop runs every continuation that is
\* ready, every timer fires, and the transport answers every attempt
LiveRequests ==
    {r \in Requests : r.verb \in {"get", "post"} /\ r.url = "/a" /\ ~r.params.given}
InitLive == InitWith(QueueOptions)
NextLive ==
    \/ \E req \in LiveRequests : Len(calls) < MaxLiveCalls /\ Enqueue(req)
    \/ Lifecycle
SpecLive == InitLive /\ [][NextLive]_vars /\ WF_vars(Lifecycle)

-----------------------------------------------------------------------------
(* Properties *)

\* a call between its start and the settling of its future, retries and backoff included
InSpan(c) == c.pc \in {"request", "inflight", "backoff", "settle"}
Spanning == {i \in Ids : InSpan(calls[i])}

\* C1 (single-flight): at every instant at most one enqueued action is between its
\* start and the settling of its future, whatever its verb; while one is, the busy flag
\* is set, so no queued action starts and only that action has an attempt in flight.
C1_SingleFlight ==
    /\ Cardinality(Spanning) <= 1
    /\ Spanning # {} => isProcessingQueue
    /\ \A i \in Ids : calls[i].pc \in {"inflight", "backoff"} => Spanning = {i}

\* a call is retrying (backoff) while another call waits in the queue
C1_Witness ==
    \E i \in Ids : calls[i].pc = "backoff" /\ Len(requestQueue) >= 1

IsPrefixOfIds(s) == \A k \in 1..Len(s) : s[k] = k

\* C2 (FIFO): calls start in enqueue order and their futures settle in enqueue order
\* (ids number the calls in enqueue order); the queue holds the waiting calls in
\* enqueue order, all of them later than every started call.
C2_Fifo ==
    /\ IsPrefixOfIds(started)
    /\ IsPrefixOfIds(settled)
    /\ Len(settled) <= Len(started)
    /\ \A k \in 1..Len(requestQueue) : requestQueue[k] = Len(started) + k

\* calls 1 and 2 have settled, in that order, and call 3 was enqueued before call 2
\* finished and waits behind it
C2_Witness ==
    /\ settled = <<1, 2>>
    /\ Len(calls) = 3 /\ calls[2].pc = "finish"
    /\ requestQueue = <<3>>

\* the retry decision the claims state: the attempt counter is below the configured
\* maximum and the status is 500 or 503
RetryExpected(counter, status) == counter < config.retryCount /\ status \in {500, 503}

\* C3 (retry decision): a failed attempt is retried iff the attempt counter it was made
\* with is below the configured maximum M (3 by default) and its status is 500 or 503.
\* After a retry decision the call is in backoff with the counter incremented; after a
\* terminal one it settles with the transport error of that attempt.
C3_RetryDecision ==
    \A i \in Ids :
       /\ calls[i].pc = "backoff" => RetryExpected(calls[i].retryCount - 1, calls[i].status)
       /\ (calls[i].pc = "settle" /\ calls[i].result.kind = "transport")
             => ~RetryExpected(calls[i].retryCount, calls[i].status)

\* C4 (retry termination): a call issues at most 1 + M transport attempts, and when it
\* is rejected after 500/503 answers it is rejected with the error of its last attempt.
C4_RetryTermination ==
    \A i \in Ids :
       Active(calls[i]) =>
          /\ calls[i].attempts <= 1 + config.retryCount
          /\ (calls[i].pc = "settle" /\ calls[i].status \in {500, 503})
                => calls[i].result = TransportError(calls[i].status, calls[i].attempts)

\* the delays of the spec, in milliseconds, by retry index
DelayTable(k) == IF k <= 3 THEN <<2000, 4000, 8000>>[k] ELSE 10000

\* C5 (backoff delay): the delay waited before the k-th retry of a call, k counting the
\* transport attempts the call has made so far, is 2000, 4000, 8000, then 10000 ms; it
\* is never below the delay before the previous retry and never above 10000.
C5_BackoffDelay ==
    \A i \in Ids :
       calls[i].pc = "backoff" =>
          /\ calls[i].delay = DelayTable(calls[i].attempts)
          /\ calls[i].delay <= 10000
          /\ calls[i].attempts > 1 => calls[i].delay >= DelayTable(calls[i].attempts - 1)

\* a call waits 10000 ms before its fourth retry
C5_Witness ==
    \E i \in Ids : calls[i].pc = "backoff" /\ calls[i].attempts = 4 /\ calls[i].delay = 10000

Settling(c) == c.pc \in {"settle", "finish"}
IsGet(c) == Active(c) /\ c.req.verb = "get"

\* C6 (retry result replaces the rejection), caching enabled by cache: true.  A call
\* whose retry was answered 2xx settles with the body of that attempt, not with an
\* error; if it is a GET the body is in the cache under the call's key; and a later GET
\* with the key of a GET that succeeded on a retry makes no transport attempt and
\* settles with that body.
C6_RetryResult ==
    config.cache = "true" =>
       \A i \in Ids :
          /\ (Active(calls[i]) /\ Settling(calls[i]) /\ calls[i].attempts >= 2
                /\ calls[i].status = 200)
                => /\ calls[i].result = Body(calls[i].body)
                   /\ calls[i].req.verb = "get"
                        => /\ KeyOf(calls[i].req) \in DOMAIN cache
                           /\ cache[KeyOf(calls[i].req)] = calls[i].body
          /\ (IsGet(calls[i]) /\ fetched[KeyOf(calls[i].req)].attempts >= 2
                /\ fetched[KeyOf(calls[i].req)].id < i)
                => /\ calls[i].attempts = 0
                   /\ Settling(calls[i])
                   /\ calls[i].result = Body(fetched[KeyOf(calls[i].req)].body)

\* a GET is served from the cache the body that an earlier GET obtained on its retry
C6_Witness ==
    /\ config.cache = "true"
    /\ \E i \in Ids :
          /\ IsGet(calls[i]) /\ calls[i].pc = "settle" /\ calls[i].attempts = 0
          /\ fetched[KeyOf(calls[i].req)].attempts = 2
          /\ fetched[KeyOf(calls[i].req)].id < i
          /\ calls[i].result = Body(fetched[KeyOf(calls[i].req)].body)

\* Of two GETs with the same url and parameters, when the first was answered 2xx the
\* second makes no transport attempt of its own and settles with the first one's body:
\* the one transport call (this.instance.get, line 172) is the first call's.
CacheHitLaw ==
    \A i \in Ids :
       (IsGet(calls[i]) /\ fetched[KeyOf(calls[i].req)].id # 0
          /\ fetched[KeyOf(calls[i].req)].id < i)
          => /\ calls[i].attempts = 0
             /\ Settling(calls[i])
             /\ calls[i].result = Body(fetched[KeyOf(calls[i].req)].body)

\* C7 (cache hit): with cache: true, CacheHitLaw holds, also for a second GET that was
\* enqueued before the first completed; until the first is answered the second waits
\* in the queue.
C7_CacheHit ==
    config.cache = "true" =>
       /\ CacheHitLaw
       /\ \A i, j \in Ids :
             (i < j /\ IsGet(calls[i]) /\ ~Settling(calls[i])
                /\ calls[j].pc # "done" /\ calls[j].req = calls[i].req)
                => calls[j].pc = "queued"

\* the second of two identical GETs settles from the cache with the first one's body,
\* while the transport would now answer something else (a third call shows it)
C7_Witness ==
    /\ config.cache = "true"
    /\ Len(calls) >= 2 /\ IsGet(calls[2]) /\ calls[2].pc = "settle"
    /\ calls[2].attempts = 0
    /\ fetched[KeyOf(calls[2].req)].id = 1
    /\ calls[2].result = Body(fetched[KeyOf(calls[2].req)].body)

\* C8 (caching is the default): a client constructed without a cache option obeys
\* CacheHitLaw.
C8_DefaultCaches == config.cache = Undefined => CacheHitLaw

\* C9 (cache disabled): with cache: false nothing is written to or served from the
\* cache, every GET reaches the transport, and the _t parameter of a GET differs from
\* the _t sent by the previous GET with the same url and parameters.
C9_CacheBusting ==
    config.cache = "false" =>
       /\ cache = <<>>
       /\ \A i \in Ids :
             IsGet(calls[i]) =>
                /\ Settling(calls[i]) => calls[i].attempts >= 1
                /\ calls[i].attempts >= 1 =>
                      /\ calls[i].t # NotGiven
                      /\ calls[i].t # stamps[KeyOf(calls[i].req)]

\* the parts of C9 that do not depend on the clock
C9_BothReachTransport ==
    config.cache = "false" =>
       /\ cache = <<>>
       /\ \A i \in Ids :
             IsGet(calls[i]) =>
                /\ Settling(calls[i]) => calls[i].attempts >= 1
                /\ calls[i].attempts >= 1 => calls[i].t # NotGiven

\* the step in which attempt of call i is answered 401
Answers401(i) ==
    calls[i].pc = "inflight" /\ calls'[i].pc # "inflight" /\ calls'[i].status = 401

\* the step in which the request interceptor of call i runs and the attempt goes out
SendsAttempt(i) == calls[i].pc = "request" /\ calls'[i].pc = "inflight"

C11_BestEffort ==
    \A i \in Ids :
       (Active(calls[i]) /\ Settling(calls[i]) /\ calls[i].status = 401)
          => calls[i].result = TransportError(401, calls[i].attempts)

\* the last call in the log and the one before it
Last == log[Len(log)]
Prev == log[Len(log) - 1]

\* get reported no token: null, or undefined from the in-memory Map
Absent(v) == v \in {Null, Undefined}

\* the backends that store: in-memory, local, session, cookie, durable async
Supported == Backends

\* C12 (token round trip): on a supported backend whose primitives do not fail, a get
\* that follows set(v) returns v, whatever the backend held before the set (a later
\* set overwrites an earlier one), and a get that follows remove returns absent.
C12_RoundTrip ==
    (Len(log) >= 2 /\ Last.op = "get" /\ Last.type \in Supported /\ ~Last.failed
       /\ ~Prev.failed)
       => /\ Prev.op = "set" => Last.result = Prev.token
          /\ Prev.op = "remove" => Absent(Last.result)

\* the placeholder backends: server-managed and http-only cookie
Placeholders == {NEXT_SERVER_SIDE, NEXT_HTTP_ONLY}

\* C13 (placeholder backends fail loudly): every call of set, get or remove on a
\* placeholder backend signals a failure to its caller.
C13_PlaceholdersFail ==
    (Len(log) >= 1 /\ Last.type \in Placeholders) => Last.threw

\* C14 (error asymmetry), on every backend: get never throws to its caller and returns
\* absent when the backend failed; set and remove throw to their caller when the
\* backend failed, and the backend then holds what it held before the call.
C14_ErrorAsymmetry ==
    \A k \in 1..Len(log) :
       /\ log[k].op = "get" => /\ ~log[k].threw
                               /\ log[k].failed => log[k].result = Null
       /\ (log[k].op \in {"set", "remove"} /\ log[k].failed) => log[k].threw
       /\ (k = Len(log) /\ log[k].op \in {"set", "remove"} /\ log[k].failed)
             => Held(storage, log[k].type) = log[k].before

\* a get whose backend failed returned absent although a token was held, and the
\* remove after it failed and threw: the token is still held
C14_Witness ==
    /\ Len(log) >= 2
    /\ Prev.op = "get" /\ Prev.failed /\ Prev.before = "abc" /\ Prev.result = Null
    /\ Last.op = "remove" /\ Last.failed /\ Last.threw
    /\ Held(storage, Last.type) = "abc"

\* the Authorization header that a held value yields when every value counts as a token
HeaderOfAny(held) == IF held # Null THEN held ELSE None

\* the Authorization header that a held value yields: none for null and for ""
HeaderOf(held) == IF Truthy(held) THEN held ELSE None

GetSucceeds(i) ==
    /\ calls[i].pc = "inflight" /\ calls[i].req.verb = "get"
    /\ calls'[i].pc = "settle" /\ calls'[i].status = 200

\* C16 (cache frame): no step removes or changes a cache entry; the cache grows only in
\* the step in which a GET is answered 2xx, caching is enabled and the key of that GET
\* is not cached, and then by that key with the body of the answer; and with caching
\* enabled a GET that is started while its key is cached makes no transport attempt and
\* settles with the cached body, whatever calls went before it.
C16_CacheFrame ==
    [][/\ \A k \in DOMAIN cache : k \in DOMAIN cache' /\ cache'[k] = cache[k]
       /\ cache' # cache =>
             \E i \in Ids :
                /\ GetSucceeds(i) /\ Truthy(config.cache)
                /\ KeyOf(calls[i].req) \notin DOMAIN cache
                /\ cache' = (KeyOf(calls[i].req) :> calls'[i].body) @@ cache
       /\ \A i \in Ids :
             (Truthy(config.cache) /\ calls[i].pc = "queued" /\ calls'[i].pc # "queued"
                /\ calls[i].req.verb = "get" /\ KeyOf(calls[i].req) \in DOMAIN cache)
                => /\ calls'[i].pc = "settle" /\ calls'[i].attempts = 0
                   /\ calls'[i].result = Body(cache[KeyOf(calls[i].req)])]_vars

\* a GET was cached, the write after it was answered 2xx and left the entry as the GET
\* stored it, and the same GET waits in the queue
C16_Witness ==
    /\ Len(calls) = 3 /\ calls[2].pc = "finish"
    /\ calls[2].req.verb \in {"post", "put", "delete", "upload"} /\ calls[2].status = 200
    /\ calls[3].pc = "queued" /\ calls[3].req.verb = "get"
    /\ fetched[KeyOf(calls[3].req)].id = 1
    /\ KeyOf(calls[3].req) \in DOMAIN cache
    /\ cache[KeyOf(calls[3].req)] = fetched[KeyOf(calls[3].req)].body

\* the step of setTokenStorageType to another backend
Switches == tokenStorageType' # tokenStorageType

SendsRetry(i) == SendsAttempt(i) /\ calls[i].attempts >= 1

\* the steps of call i from the retry decision to the retry going out change nothing
\* of the caller's request, and the counter by one per retry
RetryKeepsRequest(i) ==
    /\ (calls[i].pc = "inflight" /\ calls'[i].pc = "backoff")
          => /\ calls'[i].retryCount = calls[i].retryCount + 1
             /\ calls'[i].req = calls[i].req
    /\ (calls[i].pc = "backoff" /\ calls'[i].pc # "backoff")
          => calls'[i] = [calls[i] EXCEPT !.pc = "request"]
    /\ SendsRetry(i)
          => /\ calls'[i].req = calls[i].req
             /\ calls'[i].retryCount = calls[i].retryCount
             /\ calls'[i].retryCount = calls[i].attempts

SameMapping(p, q) ==
    /\ p.given = q.given
    /\ {p.members[k] : k \in DOMAIN p.members} = {q.members[k] : k \in DOMAIN q.members}

\* C20 (canonical cache key): two GET calls have the same cache key exactly when they
\* have the same url and their params are equal as mappings, in whatever order the
\* members were given.
C20_CanonicalKey ==
    \A i, j \in Ids :
       (IsGet(calls[i]) /\ calls[j].pc = "queued" /\ calls[j].req.verb = "get")
          => (KeyOf(calls[i].req) = KeyOf(calls[j].req)
                <=> /\ calls[i].req.url = calls[j].req.url
                    /\ SameMapping(calls[i].req.params, calls[j].req.params))

\* the ids in a sequence of ids
Range(s) == {s[k] : k \in 1..Len(s)}

\* C21 (queue liveness), the transport answering every attempt: every call that was
\* enqueued is eventually started and its future eventually settled, whatever the
\* calls before it were answered; the busy flag is set only while a call of the queue
\* is executing, so a rejected call does not leave it set; and a call waits in the
\* queue only while the flag is set.
C21_QueueLiveness ==
    /\ [](isProcessingQueue => \E i \in Ids : Active(calls[i]))
    /\ [](requestQueue # <<>> => isProcessingQueue)
    /\ \A id \in 1..MaxLiveCalls :
          (Len(calls) >= id) ~> (id \in Range(started) /\ id \in Range(settled))

\* the first call was rejected with a 401 and the second call, enqueued behind it, was
\* started after it and has settled with a body
C21_Witness ==
    /\ since401 = "reported"
    /\ settled = <<1, 2>>
    /\ calls[2].pc = "finish" /\ calls[2].status = 200
    /\ calls[2].result = Body(calls[2].body)
    /\ ~(\E i \in Ids : calls[i].pc # "done" /\ calls[i].status = 401)

\* the number of retries a call is given: this.config.retryCount || 3
Budget == OrThree(config.retryCount)

\* the retries call i has scheduled itself, from the attempts it has sent
OwnRetries(c) ==
    IF c.pc = "backoff" \/ (c.pc = "request" /\ c.attempts > 0) THEN c.attempts
    ELSE IF c.attempts = 0 THEN 0 ELSE c.attempts - 1

\* C22 (independent retry budgets): the counter of a call is the number of retries
\* that call itself has scheduled, 0 until its first attempt was answered, whatever
\* the calls before it did; and a call is rejected after a 500 or 503 answer only when
\* its own counter has reached the budget.
C22_IndependentBudgets ==
    \A i \in Ids :
       calls[i].pc # "done" =>
          /\ calls[i].retryCount = OwnRetries(calls[i])
          /\ calls[i].retryCount <= Budget
          /\ (Settling(calls[i]) /\ calls[i].status \in {500, 503})
                => calls[i].retryCount = Budget

\* the first GET used its retry and succeeded; the second call, the same GET on a
\* client that does not cache, failed once and is waiting for its own retry
C22_Witness ==
    /\ ~Truthy(config.cache)
    /\ Len(calls) >= 2 /\ IsGet(calls[2]) /\ calls[2].pc = "backoff"
    /\ calls[2].retryCount = 1 /\ calls[2].attempts = 1
    /\ fetched[KeyOf(calls[2].req)].id = 1
    /\ fetched[KeyOf(calls[2].req)].attempts = 2

====
